---- MODULE Spec2Model ----
(***************************************************************************)
(* A model of staticmaps/cairo_renderer.py: the CairoRenderer, its cairo   *)
(* drawing context (transformation origin, save/restore stack, source,     *)
(* font size), the injected tile download callable and the objects'        *)
(* render_cairo callback.  One renderer is constructed over one            *)
(* Transformer and one of its render_* methods is run, loop iteration by   *)
(* loop iteration.                                                         *)
(*                                                                         *)
(* Lengths are in pixels.  Font sizes are in quarter points (9.0 is 36),   *)
(* so that the 0.25 decrement of the source is the integer 1.  The         *)
(* fractional tile offsets of the Transformer are in half pixels.          *)
(***************************************************************************)
EXTENDS Integers, Sequences, FiniteSets

VARIABLES
    cairo_installed, \* whether "import cairo" can succeed in this process
    sys_modules,     \* sys.modules after the module's imports ran
    answer,          \* what cairo_is_supported() returned to the caller
    trans,           \* the Transformer handed to the constructor
    surface,         \* self._surface
    ctx,             \* self._context: [created, gs, saved]
    pc,              \* where the caller / the running method stands
    method,          \* the render_* method that was called
    color,           \* render_background's argument
    attribution,     \* render_attribution's argument: -1 is None, else len
    n_objects,       \* len(objects) of render_objects
    yy, xx,          \* render_tiles' loop variables
    obj, p,          \* render_objects' loop variables
    font_size,       \* render_attribution's local font_size
    t_width,         \* render_attribution's local t_width
    cells,           \* what happened to each tile cell, in order
    ops,             \* the drawing calls that reached the cairo context
    err              \* the exception that left the method, if any

vars == << cairo_installed, sys_modules, answer, trans, surface, ctx, pc, method,
           color, attribution, n_objects, yy, xx, obj, p, font_size, t_width,
           cells, ops, err >>

----------------------------------------------------------------------------
(* Bounds of the model. *)

\* render_objects is given lists of 0..MaxObjects objects.
MaxObjects == 2

\* Attribution strings have 0..MaxLen characters.
MaxLen == 2

\* font_size is an IEEE double: subtracting 0.25 stops changing it once its
\* magnitude is large enough.  FontFloor (quarter points) stands for that
\* magnitude, scaled down.
FontFloor == 2

(* The Transformers the renderer is constructed over. *)
Zooms        == {0, 1}
TileSizes    == {2}
ImageSizes   == { <<3, 2>>, <<4, 2>>, <<6, 3>>, <<9, 2>> }
FirstTileXs  == {-3, 0, 2}
FirstTileYs  == {-1, 0, 1}
TilesXs      == {1, 2}
TilesYs      == {1, 2}
\* (tile_offset_x, tile_offset_y) in half pixels: (-1.5, -0.5) and (0, 0)
TileOffsets2 == { <<-3, -1>>, <<0, 0>> }

Transformers ==
    [ zoom : Zooms, tile_size : TileSizes, image_size : ImageSizes,
      first_tile_x : FirstTileXs, first_tile_y : FirstTileYs,
      tiles_x : TilesXs, tiles_y : TilesYs, tile_offset2 : TileOffsets2 ]

----------------------------------------------------------------------------
(* The Transformer's accessors *)

RECURSIVE Pow2(_)
Pow2(n) == IF n = 0 THEN 1 ELSE 2 * Pow2(n - 1)

number_of_tiles == Pow2(trans.zoom)
world_width     == trans.tile_size * Pow2(trans.zoom)
image_width     == trans.image_size[1]
image_height    == trans.image_size[2]

----------------------------------------------------------------------------
(* Python arithmetic *)

\* a % n for n > 0: the result has the sign of n
PyMod(a, n) == a - n * (IF a >= 0 THEN a \div n ELSE -((-a + n - 1) \div n))

\* math.ceil(a / b) for a >= 0, b > 0
MathCeil(a, b) == IF a % b = 0 THEN a \div b ELSE (a \div b) + 1

\* int(h / 2): int() truncates toward zero
IntOfHalves(h) == IF h >= 0 THEN h \div 2 ELSE -((-h) \div 2)

----------------------------------------------------------------------------
(* The cairo context *)

NewGState == [ origin |-> <<0, 0>>, source |-> "black", font_size |-> 40,
               font_face |-> "default" ]
NoContext  == [ created |-> FALSE, gs |-> NewGState, saved |-> << >> ]
NewContext == [ created |-> TRUE,  gs |-> NewGState, saved |-> << >> ]

save(c)    == [c EXCEPT !.saved = Append(c.saved, c.gs)]
restore(c) == [c EXCEPT !.gs = c.saved[Len(c.saved)],
                        !.saved = SubSeq(c.saved, 1, Len(c.saved) - 1)]
translate(c, tx, ty) ==
    [c EXCEPT !.gs.origin = << c.gs.origin[1] + tx, c.gs.origin[2] + ty >>]
set_source(c, s)    == [c EXCEPT !.gs.source = s]
set_font_size(c, q) == [c EXCEPT !.gs.font_size = q]
select_font_face(c, f) == [c EXCEPT !.gs.font_face = f]

\* one drawing call as it reaches the surface
Op(name, args, c) ==
    [ op |-> name, args |-> args, at |-> c.gs.origin, source |-> c.gs.source,
      font_size |-> c.gs.font_size ]

----------------------------------------------------------------------------
(* Module import and cairo_is_supported *)

\* lines 13-16: "cairo" enters sys.modules when the import succeeds
ImportedModules(installed) ==
    {"io", "math", "sys", "typing", "PIL"} \cup (IF installed THEN {"cairo"} ELSE {})

cairo_is_supported_always == TRUE

cairo_is_supported == "cairo" \in sys_modules

NoSurface == [ created |-> FALSE, size |-> <<0, 0>> ]

Init ==
    /\ cairo_installed \in BOOLEAN
    /\ sys_modules = ImportedModules(cairo_installed)
    /\ answer = "unasked"
    /\ trans \in Transformers
    /\ surface = NoSurface
    /\ ctx = NoContext
    /\ pc = "start"
    /\ method = "none"
    /\ color = "None"
    /\ attribution = -1
    /\ n_objects = 0
    /\ yy = 0 /\ xx = 0 /\ obj = 0 /\ p = 0
    /\ font_size = 0 /\ t_width = 0
    /\ cells = << >>
    /\ ops = << >>
    /\ err = "none"

locals == << yy, xx, obj, p, font_size, t_width >>
args   == << color, attribution, n_objects >>
env    == << cairo_installed, sys_modules, trans >>

\* a caller asks cairo_is_supported() before constructing anything
Query ==
    /\ pc = "start"
    /\ answer = "unasked"
    /\ answer' = IF cairo_is_supported THEN "True" ELSE "False"
    /\ UNCHANGED << env, surface, ctx, pc, method, args, locals, cells, ops, err >>

\* CairoRenderer.__init__
Construct ==
    /\ pc = "start"
    /\ IF ~cairo_is_supported
         THEN /\ pc' = "raised"
              /\ err' = "RuntimeError"
              /\ UNCHANGED << surface, ctx >>
         ELSE /\ surface' = [ created |-> TRUE, size |-> trans.image_size ]
              /\ ctx' = NewContext
              /\ pc' = "idle"
              /\ err' = "none"
    /\ method' = "__init__"
    /\ UNCHANGED << env, answer, args, locals, cells, ops >>

----------------------------------------------------------------------------
(* render_background *)

Colors == {"None", "color"}

background_skipped_never(c) == FALSE

background_skipped(c) == c = "None"

render_background(c) ==
    /\ pc = "idle"
    /\ method' = "render_background"
    /\ color' = c
    /\ IF background_skipped(c)
         THEN UNCHANGED << ctx, ops >>
         ELSE /\ ctx' = set_source(ctx, c)
              /\ ops' = Append(ops, Op("fill", <<0, 0, image_width, image_height>>,
                                       set_source(ctx, c)))
    /\ pc' = "returned"
    /\ UNCHANGED << env, answer, surface, attribution, n_objects, locals, cells, err >>

----------------------------------------------------------------------------
(* render_objects *)

x_count_floor == image_width \div (2 * world_width)

x_count == MathCeil(image_width, 2 * world_width)

call_render_objects(n) ==
    /\ pc = "idle"
    /\ method' = "render_objects"
    /\ n_objects' = n
    /\ obj' = 0
    /\ p' = -x_count
    /\ pc' = IF n = 0 THEN "returned" ELSE "objects"
    /\ UNCHANGED << env, answer, surface, ctx, color, attribution, yy, xx,
                    font_size, t_width, cells, ops, err >>

\* one pass of the inner loop: save, translate, obj.render_cairo, restore
render_objects_copy(raises) ==
    /\ pc = "objects"
    /\ LET c1 == translate(save(ctx), p * world_width, 0)
           last == (p = x_count)
       IN  /\ ops' = Append(ops, Op("render_cairo", <<obj, p>>, c1))
           /\ IF raises
                THEN /\ ctx' = c1
                     /\ pc' = "raised"
                     /\ err' = "OtherError"
                     /\ UNCHANGED << obj, p >>
                ELSE /\ ctx' = restore(c1)
                     /\ err' = "none"
                     /\ p' = IF last THEN -x_count ELSE p + 1
                     /\ obj' = IF last THEN obj + 1 ELSE obj
                     /\ pc' = IF last /\ obj + 1 = n_objects
                                THEN "returned" ELSE "objects"
    /\ UNCHANGED << env, answer, surface, method, args, yy, xx, font_size,
                    t_width, cells >>

----------------------------------------------------------------------------
(* render_tiles, fetch_tile, create_image *)

\* What the collaborators of one tile cell do:
\*   absent               download returns None
\*   image                download returns bytes that decode; the paint succeeds
\*   fetch_runtime_error  download raises RuntimeError
\*   fetch_other_error    download raises another exception (OSError, ValueError, ...)
\*   decode_runtime_error create_image raises RuntimeError on the bytes
\*   decode_other_error   create_image raises another exception
\*                        (PIL.UnidentifiedImageError is an OSError, cairo.Error)
\*   paint_runtime_error  set_source_surface / paint raises RuntimeError
\*   paint_other_error    set_source_surface / paint raises another exception
Outcomes == { "absent", "image", "fetch_runtime_error", "fetch_other_error",
              "decode_runtime_error", "decode_other_error",
              "paint_runtime_error", "paint_other_error" }

Returned(v) == [ exc |-> "none", val |-> v ]
Raised(e)   == [ exc |-> e, val |-> "None" ]

\* the injected download callable
download(o) ==
    CASE o = "absent"              -> Returned("None")
      [] o = "fetch_runtime_error" -> Raised("RuntimeError")
      [] o = "fetch_other_error"   -> Raised("OtherError")
      [] OTHER                     -> Returned("bytes")

\* PIL_Image.open, image.save and cairo.ImageSurface.create_from_png: both
\* branches (PNG or transcoded to PNG) end in create_from_png
create_image(o) ==
    CASE o = "decode_runtime_error" -> Raised("RuntimeError")
      [] o = "decode_other_error"   -> Raised("OtherError")
      [] OTHER                      -> Returned("surface")

fetch_tile(o) ==
    LET image_data == download(o)
    IN  IF image_data.exc # "none" THEN image_data
        ELSE IF image_data.val = "None" THEN Returned("None")
        ELSE create_image(o)

\* set_source_surface(tile_img); paint()
paint(o) ==
    CASE o = "paint_runtime_error" -> Raised("RuntimeError")
      [] o = "paint_other_error"   -> Raised("OtherError")
      [] OTHER                     -> Returned("None")

\* line 150: except RuntimeError
caught(e) == e = "RuntimeError"

wrap_x_truncated(a) ==
    IF a >= 0 THEN a % number_of_tiles ELSE -((-a) % number_of_tiles)

\* line 137: (first_tile_x + xx) % number_of_tiles
wrap_x(a) == PyMod(a, number_of_tiles)

tile_y(r) == trans.first_tile_y + r
tile_x(c) == wrap_x(trans.first_tile_x + c)

\* line 134
row_skipped(r) == tile_y(r) < 0 \/ tile_y(r) >= number_of_tiles

\* lines 143-146: the translation of cell (r, c)
cell_offset(r, c) ==
    << IntOfHalves(2 * c * trans.tile_size + trans.tile_offset2[1]),
       IntOfHalves(2 * r * trans.tile_size + trans.tile_offset2[2]) >>

call_render_tiles ==
    /\ pc = "idle"
    /\ method' = "render_tiles"
    /\ yy' = 0
    /\ xx' = 0
    /\ pc' = "tiles"
    /\ UNCHANGED << env, answer, surface, ctx, args, obj, p, font_size, t_width,
                    cells, ops, err >>

\* the outer loop: a row is skipped, or its inner loop has ended
render_tiles_row ==
    /\ pc = "tiles"
    /\ yy < trans.tiles_y
    /\ row_skipped(yy) \/ xx = trans.tiles_x
    /\ yy' = yy + 1
    /\ xx' = 0
    /\ UNCHANGED << env, answer, surface, ctx, pc, method, args, obj, p,
                    font_size, t_width, cells, ops, err >>

\* one pass of the inner loop, lines 137-151
render_tiles_cell(o) ==
    /\ pc = "tiles"
    /\ yy < trans.tiles_y
    /\ ~row_skipped(yy)
    /\ xx < trans.tiles_x
    /\ LET x == tile_x(xx)
           y == tile_y(yy)
           tile_img == fetch_tile(o)
           off == cell_offset(yy, xx)
           c1 == translate(save(ctx), off[1], off[2])
           c2 == set_source(c1, "surface")
           drawn == paint(o)
           exc == IF tile_img.exc # "none" THEN tile_img.exc
                  ELSE IF tile_img.val = "None" THEN "none"
                  ELSE drawn.exc
       IN  /\ cells' = Append(cells, [ xx |-> xx, yy |-> yy,
                                       call |-> << trans.zoom, x, y >>,
                                       outcome |-> o ])
           /\ IF tile_img.exc # "none" \/ tile_img.val = "None"
                THEN UNCHANGED << ctx, ops >>
                ELSE IF drawn.exc # "none"
                THEN /\ ctx' = c1
                     /\ UNCHANGED ops
                ELSE /\ ctx' = restore(c2)
                     /\ ops' = Append(ops, Op("paint", << xx, yy >>, c2))
           /\ IF exc = "none" \/ caught(exc)
                THEN /\ xx' = xx + 1
                     /\ UNCHANGED << pc, err >>
                ELSE /\ pc' = "raised"
                     /\ err' = exc
                     /\ UNCHANGED xx
    /\ UNCHANGED << env, answer, surface, method, args, yy, obj, p, font_size,
                    t_width >>

render_tiles_return ==
    /\ pc = "tiles"
    /\ yy >= trans.tiles_y
    /\ pc' = "returned"
    /\ UNCHANGED << env, answer, surface, ctx, method, args, locals, cells, ops, err >>

----------------------------------------------------------------------------
(* render_attribution *)

Attributions == -1 .. MaxLen

\* text_extents(attribution).width at font size q: about half an em a
\* character, 0 once the font has no size
text_width(n, q) == IF q > 0 THEN (n * q) \div 8 ELSE 0

\* font_extents() at font size q
f_height(q)  == IF q > 0 THEN q \div 3 ELSE 0
f_descent(q) == IF q > 0 THEN q \div 12 ELSE 0

attribution_skipped(a) == a = -1 \/ a = 0

fits_inclusive(w) == w <= image_width - 4

\* line 168
fits(w) == w < image_width - 4

\* line 170 on an IEEE double
decrement(q) == IF q - 1 < -FontFloor THEN q ELSE q - 1

call_render_attribution(a) ==
    /\ pc = "idle"
    /\ method' = "render_attribution"
    /\ attribution' = a
    /\ IF attribution_skipped(a)
         THEN /\ pc' = "returned"
              /\ UNCHANGED << ctx, font_size >>
         ELSE /\ ctx' = select_font_face(ctx, "Sans")
              /\ font_size' = 36
              /\ pc' = "attr_measure"
    /\ UNCHANGED << env, answer, surface, color, n_objects, yy, xx, obj, p,
                    t_width, cells, ops, err >>

\* lines 165-167
render_attribution_measure ==
    /\ pc = "attr_measure"
    /\ ctx' = set_font_size(ctx, font_size)
    /\ t_width' = text_width(attribution, font_size)
    /\ pc' = "attr_test"
    /\ UNCHANGED << env, answer, surface, method, args, yy, xx, obj, p,
                    font_size, cells, ops, err >>

\* lines 168-170, and 171-178 once the loop is left
render_attribution_test ==
    /\ pc = "attr_test"
    /\ IF fits(t_width)
         THEN LET top == image_height - f_height(font_size) - f_descent(font_size) - 2
                  c1 == set_source(ctx, "white_0.8")
                  c2 == set_source(c1, "black")
              IN  /\ ops' = ops \o
                        << Op("fill", <<0, top, image_width, image_height>>, c1),
                           Op("show_text",
                              <<4, image_height - f_descent(font_size) - 2>>, c2),
                           Op("stroke", << >>, c2) >>
                  /\ ctx' = c2
                  /\ pc' = "returned"
                  /\ UNCHANGED font_size
         ELSE /\ font_size' = decrement(font_size)
              /\ pc' = "attr_measure"
              /\ UNCHANGED << ctx, ops >>
    /\ UNCHANGED << env, answer, surface, method, args, yy, xx, obj, p,
                    t_width, cells, err >>

----------------------------------------------------------------------------
Next ==
    \/ Query
    \/ Construct
    \/ \E c \in Colors : render_background(c)
    \/ \E n \in 0 .. MaxObjects : call_render_objects(n)
    \/ \E raises \in BOOLEAN : render_objects_copy(raises)
    \/ call_render_tiles
    \/ render_tiles_row
    \/ \E o \in Outcomes : render_tiles_cell(o)
    \/ render_tiles_return
    \/ \E a \in Attributions : call_render_attribution(a)
    \/ render_attribution_measure
    \/ render_attribution_test

Spec == Init /\ [][Next]_vars

\* A running method takes its next step: Python runs the loop on.
FairSpec == Spec /\ WF_vars(Next)

----------------------------------------------------------------------------
(* What the claims speak of *)

InTileRange(v) == 0 <= v /\ v < number_of_tiles

\* the cells of the rows whose tile y-index is in range, in row-major order
RECURSIVE GridCells(_)
GridCells(r) ==
    IF r >= trans.tiles_y THEN << >>
    ELSE (IF InTileRange(trans.first_tile_y + r)
            THEN [ c \in 1 .. trans.tiles_x |-> << c - 1, r >> ]
            ELSE << >>) \o GridCells(r + 1)

\* the cells whose download was called, in call order
CalledCells == [ i \in DOMAIN cells |-> << cells[i].xx, cells[i].yy >> ]

Painted(i) == \E j \in DOMAIN ops :
                  ops[j].op = "paint" /\ ops[j].args = << cells[i].xx, cells[i].yy >>

TilesOver == method = "render_tiles" /\ pc \in {"returned", "raised"}

\* cell i's error left render_tiles
Propagated(i) == pc = "raised" /\ i = Len(cells)

FetchErrors  == {"fetch_runtime_error", "fetch_other_error"}
DecodeErrors == {"decode_runtime_error", "decode_other_error"}
GaveBytes    == Outcomes \ ({"absent"} \cup FetchErrors)

\* C1: every call of the injected download function gets (zoom, x, y) with
\* zoom the transformer's zoom and 0 <= x < number_of_tiles,
\* 0 <= y < number_of_tiles, whatever first_tile_x, first_tile_y, tiles_x, tiles_y.
C1_DownloadArgsInRange ==
    \A i \in DOMAIN cells :
        /\ cells[i].call[1] = trans.zoom
        /\ InTileRange(cells[i].call[2])
        /\ InTileRange(cells[i].call[3])

\* a download was made for a column left of tile 0
C1_Witness ==
    \E i \in DOMAIN cells : trans.first_tile_x + cells[i].xx < 0

\* C2: an error raised by the injected fetch function for one cell does not
\* leave render_tiles, the cell stays unpainted, and every remaining cell of
\* the grid is still fetched.
C2_FetchErrorAbsorbed ==
    method = "render_tiles" =>
        \A i \in DOMAIN cells :
            cells[i].outcome \in FetchErrors =>
                /\ ~Propagated(i)
                /\ ~Painted(i)
                /\ TilesOver => CalledCells = GridCells(0)

\* C3: tile bytes that fail to decode (an error raised in create_image) are
\* absorbed like a fetch failure: render_tiles does not raise, the cell stays
\* unpainted, and the remaining cells are still processed.
C3_DecodeErrorAbsorbed ==
    method = "render_tiles" =>
        \A i \in DOMAIN cells :
            cells[i].outcome \in DecodeErrors =>
                /\ ~Propagated(i)
                /\ ~Painted(i)
                /\ TilesOver => CalledCells = GridCells(0)

\* the least k with k * (2 * world_width) >= image_width
CeilOfRatio ==
    CHOOSE k \in 0 .. image_width :
        /\ k * 2 * world_width >= image_width
        /\ (k - 1) * 2 * world_width < image_width

\* C4: render_objects calls render_cairo on every object 2 * x_count + 1
\* times, x_count = ceil(image_width / (2 * world_width)): once for each p in
\* -x_count .. x_count, in that order, with the origin translated by
\* (p * world_width, 0).
C4_WorldDuplication ==
    method = "render_objects" =>
        LET k == CeilOfRatio
            copies == 2 * k + 1
        IN  /\ Len(ops) <= n_objects * copies
            /\ \A j \in DOMAIN ops :
                   LET o == (j - 1) \div copies
                       q == ((j - 1) % copies) - k
                   IN  /\ ops[j].op = "render_cairo"
                       /\ ops[j].args = << o, q >>
                       /\ ops[j].at = << q * world_width, 0 >>
            /\ pc = "returned" => Len(ops) = n_objects * copies

\* render_objects returned after drawing two objects more than three times each
C4_Witness ==
    /\ method = "render_objects"
    /\ pc = "returned"
    /\ n_objects >= 2
    /\ Len(ops) > 3 * n_objects

\* C5: cairo_is_supported(), called before any renderer is constructed,
\* returns true exactly when the cairo module was loaded; when it returns
\* false the constructor raises RuntimeError and creates neither surface nor
\* context.
C5_SupportQuery ==
    /\ answer # "unasked" => ((answer = "True") <=> cairo_installed)
    /\ (answer = "False" /\ pc # "start") =>
           /\ pc = "raised"
           /\ err = "RuntimeError"
           /\ ~surface.created
           /\ ~ctx.created

\* the query said no and the constructor was then called
C5_Witness == answer = "False" /\ method = "__init__"

AttributionDrawn ==
    /\ method = "render_attribution"
    /\ pc = "returned"
    /\ \E j \in DOMAIN ops : ops[j].op = "show_text"

\* C6 as amended: the font size used is the first of 9.0, 8.75, 8.5, ... at
\* which the measured text width is strictly less than width - 4.
C6_FirstStrictFit ==
    AttributionDrawn =>
        LET q == ops[CHOOSE j \in DOMAIN ops : ops[j].op = "show_text"].font_size
        IN  /\ q <= 36
            /\ text_width(attribution, q) < image_width - 4
            /\ \A r \in (q + 1) .. 36 :
                   ~(text_width(attribution, r) < image_width - 4)

\* C6: the font size used is the first of 9.0, 8.75, 8.5, ... at which the
\* measured text width fits, that is, is <= width - 4.
C6_FirstFit ==
    AttributionDrawn =>
        LET q == ops[CHOOSE j \in DOMAIN ops : ops[j].op = "show_text"].font_size
        IN  /\ q <= 36
            /\ text_width(attribution, q) <= image_width - 4
            /\ \A r \in (q + 1) .. 36 :
                   ~(text_width(attribution, r) <= image_width - 4)

\* an attribution was drawn after the font was shrunk
C6_Witness ==
    /\ AttributionDrawn
    /\ ops[CHOOSE j \in DOMAIN ops : ops[j].op = "show_text"].font_size < 36

\* C7: a row whose tile y-index is out of range is skipped without a fetch;
\* every cell of an in-range row is fetched exactly once, in row-major order;
\* a cell is painted if and only if its fetch returned image bytes.
C7_TileGrid ==
    TilesOver =>
        /\ CalledCells = GridCells(0)
        /\ \A i \in DOMAIN cells : Painted(i) <=> cells[i].outcome \in GaveBytes

\* C8: render_background issues exactly one fill of (0, 0, width, height)
\* when a color is given and nothing when it is None; render_attribution
\* issues nothing and changes no context state for None or "".
C8_BackgroundAndNoOps ==
    /\ (method = "render_background" /\ pc = "returned") =>
           IF color = "None"
             THEN ops = << >> /\ ctx = NewContext
             ELSE /\ Len(ops) = 1
                  /\ ops[1].op = "fill"
                  /\ ops[1].args = << 0, 0, image_width, image_height >>
                  /\ ops[1].at = << 0, 0 >>
                  /\ ops[1].source = color
    /\ (method = "render_attribution" /\ attribution \in {-1, 0}) =>
           /\ pc = "returned"
           /\ ops = << >>
           /\ ctx = NewContext

\* render_background returned after being given no color
C8_Witness ==
    /\ method = "render_background"
    /\ pc = "returned"
    /\ color = "None"

\* C9: render_attribution terminates for every non-empty attribution and
\* every viewport width: the font-shrinking loop is left.
C9_Terminates == (pc = "attr_measure") ~> (pc = "returned")

\* C10: when render_tiles or render_objects returns normally every save has
\* been matched by a restore and the origin is as at entry; each object copy
\* is drawn at origin p * world_width and each tile at its own cell offset,
\* also after a cell whose processing raised an absorbed error.
C10_SaveRestoreBalanced ==
    /\ (pc = "returned" /\ method \in {"render_tiles", "render_objects"}) =>
           /\ ctx.saved = << >>
           /\ ctx.gs.origin = << 0, 0 >>
    /\ \A j \in DOMAIN ops :
           /\ ops[j].op = "paint" =>
                  ops[j].at = cell_offset(ops[j].args[2], ops[j].args[1])
           /\ ops[j].op = "render_cairo" =>
                  ops[j].at = << ops[j].args[2] * world_width, 0 >>

====
